---------------------------- MODULE Spec2Model ----------------------------
(***************************************************************************)
(* A model of the MQTT Wake-on-LAN service of src/main.py: the message     *)
(* handler MQTTWOLService._on_message, the dispatcher _wake_device, the    *)
(* MAC pattern check _is_mac_address and the life cycle of run().          *)
(*                                                                         *)
(* Text is modelled as a sequence of one-character strings, so that the    *)
(* pattern check, strip(), lower() and the JSON decoder work on the        *)
(* characters as the code does.                                            *)
(***************************************************************************)
EXTENDS Integers, Sequences, FiniteSets, TLC

(***************************************************************************)
(* Characters and Python's str operations                                  *)
(***************************************************************************)

UpperLetters ==
    <<"A","B","C","D","E","F","G","H","I","J","K","L","M",
      "N","O","P","Q","R","S","T","U","V","W","X","Y","Z">>

LowerLetters ==
    <<"a","b","c","d","e","f","g","h","i","j","k","l","m",
      "n","o","p","q","r","s","t","u","v","w","x","y","z">>

Digits == {"0","1","2","3","4","5","6","7","8","9"}

\* [0-9A-Fa-f] of the pattern at src/main.py:183
HexDigits == Digits \cup {"A","B","C","D","E","F","a","b","c","d","e","f"}

\* the characters str.strip() removes (ASCII white space)
PyWhitespace == {" ", "\t", "\n", "\r", "\f"}

\* str.lower() on one character
LowerChar(c) ==
    IF \E i \in 1..26 : UpperLetters[i] = c
    THEN LowerLetters[CHOOSE i \in 1..26 : UpperLetters[i] = c]
    ELSE c

RECURSIVE Lower(_)
\* str.lower()
Lower(s) == IF s = <<>> THEN <<>> ELSE <<LowerChar(Head(s))>> \o Lower(Tail(s))

\* str.strip(): drop leading and trailing white space
Strip(s) ==
    LET keep == {i \in 1..Len(s) : s[i] \notin PyWhitespace}
    IN  IF keep = {} THEN <<>>
        ELSE LET lo == CHOOSE i \in keep : \A j \in keep : i <= j
                 hi == CHOOSE i \in keep : \A j \in keep : j <= i
             IN  SubSeq(s, lo, hi)

\* s[-5:] : the last five items of a sequence (all of it when shorter)
Last5(s) == IF Len(s) <= 5 THEN s ELSE SubSeq(s, Len(s) - 4, Len(s))

(***************************************************************************)
(* _is_mac_address: re.match(r'^([0-9A-Fa-f]{2}[:-]){5}([0-9A-Fa-f]{2})$') *)
(* Each of the five separators is matched by [:-] on its own.  '$' matches *)
(* at the end of the text and also just before one final line feed.        *)
(***************************************************************************)

\* the separator class [:-] of the pattern
MacSeparators == {":", "-"}

\* ([0-9A-Fa-f]{2}[:-]){5}([0-9A-Fa-f]{2}) matches the first 17 characters
MacPrefixMatches(text) ==
    /\ Len(text) >= 17
    /\ \A i \in 1..17 :
          IF i % 3 = 0 THEN text[i] \in MacSeparators ELSE text[i] \in HexDigits

\* '$' after the 17 characters: the end, or a line feed that ends the text
DollarMatchesAfter17(text) ==
    \/ Len(text) = 17
    \/ Len(text) = 18 /\ text[18] = "\n"

_is_mac_address(text) == MacPrefixMatches(text) /\ DollarMatchesAfter17(text)

(***************************************************************************)
(* Python values.  A str holds its characters, a number its literal text,  *)
(* a dict its keys in insertion order with one value per key.              *)
(***************************************************************************)

PyNone == [t |-> "NoneType"]

PyStr(chars) == [t |-> "str", s |-> chars]

PyBool(b) == [t |-> "bool", b |-> b]

PyNum(literal) == [t |-> "number", lit |-> literal]

PyList(items) == [t |-> "list", items |-> items]

PyDict(keys, vals) == [t |-> "dict", keys |-> keys, vals |-> vals]

\* key in d, for a dict d
DictHas(d, key) == \E i \in 1..Len(d.keys) : d.keys[i] = key

\* d[key], for a dict d that has the key
DictGet(d, key) == d.vals[CHOOSE i \in 1..Len(d.keys) : d.keys[i] = key]

\* d[key] = val: a key already present keeps its place and takes the value
DictSet(d, key, val) ==
    IF DictHas(d, key)
    THEN PyDict(d.keys,
                [d.vals EXCEPT ![CHOOSE i \in 1..Len(d.keys) : d.keys[i] = key] = val])
    ELSE PyDict(Append(d.keys, key), Append(d.vals, val))

\* the literal of a number is a zero: every digit of its mantissa is "0"
NumIsZero(literal) ==
    LET expAt == {i \in 1..Len(literal) : literal[i] \in {"e", "E"}}
        mantissaEnd == IF expAt = {} THEN Len(literal)
                 ELSE (CHOOSE i \in expAt : \A j \in expAt : i <= j) - 1
    IN  \A i \in 1..mantissaEnd : literal[i] \in Digits => literal[i] = "0"

\* bool(v): Python's truth value, as `if ip_address:` and `not device_name` use it
Truthy(v) ==
    CASE v.t = "NoneType" -> FALSE
      [] v.t = "bool"     -> v.b
      [] v.t = "str"      -> Len(v.s) > 0
      [] v.t = "number"   -> ~NumIsZero(v.lit)
      [] v.t = "list"     -> Len(v.items) > 0
      [] v.t = "dict"     -> Len(v.keys) > 0

(***************************************************************************)
(* json.loads, as the standard decoder scans: white space, the literals,   *)
(* numbers, strings (strict: no control character inside), arrays and      *)
(* objects (a repeated key keeps its last value).  A \uXXXX escape is      *)
(* outside the modelled alphabet and is rejected.                          *)
(***************************************************************************)

JsonWhitespace == {" ", "\t", "\n", "\r"}

ControlChars == {"\t", "\n", "\r", "\f", "<BS>"}

NoParse == [ok |-> FALSE]

Parsed(val, next) == [ok |-> TRUE, val |-> val, next |-> next]

\* the first index from i on that holds no JSON white space (Len(s)+1: none)
SkipWs(s, i) ==
    LET stop == {j \in i..(Len(s) + 1) : j = Len(s) + 1 \/ s[j] \notin JsonWhitespace}
    IN  CHOOSE j \in stop : \A k \in stop : j <= k

\* s holds lit at index i
StartsWith(s, i, lit) ==
    /\ i + Len(lit) - 1 <= Len(s)
    /\ \A k \in 1..Len(lit) : s[i + k - 1] = lit[k]

IsDigitAt(s, i) == i >= 1 /\ i <= Len(s) /\ s[i] \in Digits

\* the last index of the run of digits that starts at i (a digit)
DigitsRunEnd(s, i) ==
    LET ends == {j \in i..Len(s) : \A k \in i..j : s[k] \in Digits}
    IN  CHOOSE j \in ends : \A k \in ends : k <= j

\* NUMBER_RE: (-?(?:0|[1-9]\d*))(\.\d+)?([eE][-+]?\d+)?
\* the last index of the integer part whose first digit is at j0
IntegerEnd(s, j0) == IF s[j0] = "0" THEN j0 ELSE DigitsRunEnd(s, j0)

\* the last index of the optional fraction (\.\d+)? after the integer part
FractionEnd(s, intEnd) ==
    IF intEnd + 1 <= Len(s) /\ s[intEnd + 1] = "." /\ IsDigitAt(s, intEnd + 2)
    THEN DigitsRunEnd(s, intEnd + 2) ELSE intEnd

\* the index of the first digit an exponent would have after fracEnd
ExponentDigitsAt(s, fracEnd) ==
    IF fracEnd + 2 <= Len(s) /\ s[fracEnd + 2] \in {"+", "-"}
    THEN fracEnd + 3 ELSE fracEnd + 2

\* the last index of the optional exponent ([eE][-+]?\d+)? after fracEnd
ExponentEnd(s, fracEnd) ==
    IF fracEnd + 1 <= Len(s) /\ s[fracEnd + 1] \in {"e", "E"}
       /\ IsDigitAt(s, ExponentDigitsAt(s, fracEnd))
    THEN DigitsRunEnd(s, ExponentDigitsAt(s, fracEnd)) ELSE fracEnd

\* the number whose literal is s[i..numEnd]
NumberUpTo(s, i, numEnd) == Parsed(PyNum(SubSeq(s, i, numEnd)), numEnd + 1)

\* the index of the first digit of a number at i, after an optional sign
AfterSign(s, i) == IF s[i] = "-" THEN i + 1 ELSE i

ParseNumber(s, i) ==
    IF ~IsDigitAt(s, AfterSign(s, i)) THEN NoParse
    ELSE NumberUpTo(s, i, ExponentEnd(s, FractionEnd(s, IntegerEnd(s, AfterSign(s, i)))))

\* BACKSLASH: the character an escape stands for
Unescape(c) ==
    CASE c = "n" -> "\n"
      [] c = "t" -> "\t"
      [] c = "r" -> "\r"
      [] c = "f" -> "\f"
      [] c = "b" -> "<BS>"
      [] OTHER   -> c

RECURSIVE ParseStringBody(_, _, _)
\* py_scanstring from the character after the opening quote
ParseStringBody(s, i, acc) ==
    IF i > Len(s) THEN NoParse
    ELSE IF s[i] = "\"" THEN Parsed(PyStr(acc), i + 1)
    ELSE IF s[i] = "\\"
         THEN IF i + 1 <= Len(s) /\ s[i + 1] \in {"\"", "\\", "/", "b", "f", "n", "r", "t"}
              THEN ParseStringBody(s, i + 2, Append(acc, Unescape(s[i + 1])))
              ELSE NoParse
    ELSE IF s[i] \in ControlChars THEN NoParse
    ELSE ParseStringBody(s, i + 1, Append(acc, s[i]))

RECURSIVE ParseValue(_, _)
RECURSIVE ParseElements(_, _, _)
RECURSIVE ParseMembers(_, _, _)

\* JSONArray once the items are read and index j holds ']' or ','
ElementsNext(s, items, j) ==
    IF j > Len(s) THEN NoParse
    ELSE IF s[j] = "]" THEN Parsed(PyList(items), j + 1)
    ELSE IF s[j] = "," THEN ParseElements(s, SkipWs(s, j + 1), items)
    ELSE NoParse

\* JSONArray once the value v of an item is read
ElementsAfterValue(s, acc, v) ==
    IF ~v.ok THEN NoParse ELSE ElementsNext(s, Append(acc, v.val), SkipWs(s, v.next))

\* JSONArray after a value is due at i: value, then ']' or ',' and the next value
ParseElements(s, i, acc) == ElementsAfterValue(s, acc, ParseValue(s, i))

\* JSONObject once the pairs d are read and index j holds '}' or ','
MembersNext(s, d, j) ==
    IF j > Len(s) THEN NoParse
    ELSE IF s[j] = "}" THEN Parsed(d, j + 1)
    ELSE IF s[j] = "," THEN ParseMembers(s, SkipWs(s, j + 1), d)
    ELSE NoParse

\* JSONObject once the value v of the key is read
MembersAfterValue(s, acc, key, v) ==
    IF ~v.ok THEN NoParse
    ELSE MembersNext(s, DictSet(acc, key, v.val), SkipWs(s, v.next))

\* JSONObject once the key k is read and index c is due to hold ':'
MembersAfterKey(s, acc, k, c) ==
    IF c > Len(s) \/ s[c] # ":" THEN NoParse
    ELSE MembersAfterValue(s, acc, k.val.s, ParseValue(s, SkipWs(s, c + 1)))

\* JSONObject once the string k that is the key is scanned
MembersKey(s, acc, k) ==
    IF ~k.ok THEN NoParse ELSE MembersAfterKey(s, acc, k, SkipWs(s, k.next))

\* JSONObject with a key due at i: "key" : value, then '}' or ',' and the next key
ParseMembers(s, i, acc) ==
    IF i > Len(s) \/ s[i] # "\"" THEN NoParse
    ELSE MembersKey(s, acc, ParseStringBody(s, i + 1, <<>>))

\* JSONObject from the index j after '{' and white space
ParseObject(s, j) ==
    IF j <= Len(s) /\ s[j] = "}" THEN Parsed(PyDict(<<>>, <<>>), j + 1)
    ELSE ParseMembers(s, j, PyDict(<<>>, <<>>))

\* JSONArray from the index j after '[' and white space
ParseArray(s, j) ==
    IF j <= Len(s) /\ s[j] = "]" THEN Parsed(PyList(<<>>), j + 1)
    ELSE ParseElements(s, j, <<>>)

\* scan_once past the literals: the number n that NUMBER_RE matched at i, or
\* one of the constants NaN, Infinity, -Infinity
NumberOrConstant(s, i, n) ==
    IF n.ok THEN n
    ELSE IF StartsWith(s, i, <<"N","a","N">>)
         THEN Parsed(PyNum(<<"N","a","N">>), i + 3)
    ELSE IF StartsWith(s, i, <<"I","n","f","i","n","i","t","y">>)
         THEN Parsed(PyNum(<<"I","n","f">>), i + 8)
    ELSE IF StartsWith(s, i, <<"-","I","n","f","i","n","i","t","y">>)
         THEN Parsed(PyNum(<<"-","I","n","f">>), i + 9)
    ELSE NoParse

\* scan_once: the value that starts at index i
ParseValue(s, i) ==
    IF i > Len(s) THEN NoParse
    ELSE IF s[i] = "\"" THEN ParseStringBody(s, i + 1, <<>>)
    ELSE IF s[i] = "{" THEN ParseObject(s, SkipWs(s, i + 1))
    ELSE IF s[i] = "[" THEN ParseArray(s, SkipWs(s, i + 1))
    ELSE IF StartsWith(s, i, <<"n","u","l","l">>) THEN Parsed(PyNone, i + 4)
    ELSE IF StartsWith(s, i, <<"t","r","u","e">>) THEN Parsed(PyBool(TRUE), i + 4)
    ELSE IF StartsWith(s, i, <<"f","a","l","s","e">>) THEN Parsed(PyBool(FALSE), i + 5)
    ELSE NumberOrConstant(s, i, ParseNumber(s, i))

\* json.loads once the value r is scanned: nothing but white space may follow
WholeText(text, r) ==
    IF ~r.ok THEN NoParse
    ELSE IF SkipWs(text, r.next) # Len(text) + 1 THEN NoParse
    ELSE [ok |-> TRUE, val |-> r.val]

\* json.loads(text): [ok, val]; ok = FALSE stands for json.JSONDecodeError
JsonLoads(text) == WholeText(text, ParseValue(text, SkipWs(text, 1)))

(***************************************************************************)
(* The strings of the code                                                 *)
(***************************************************************************)

K_mac_address == <<"m","a","c","_","a","d","d","r","e","s","s">>

K_ip_address == <<"i","p","_","a","d","d","r","e","s","s">>

K_device == <<"d","e","v","i","c","e">>

K_name == <<"n","a","m","e">>

\* the prefix of the default name, f"device-{mac_address[-5:]}"
DevicePrefix == <<"d","e","v","i","c","e","-">>

(***************************************************************************)
(* Python operations the handler applies to whatever json.loads returned.  *)
(* Each gives [exc, val]: exc is "none" or the exception raised.           *)
(***************************************************************************)

Ok(val) == [exc |-> "none", val |-> val]

Raise(exc) == [exc |-> exc]

\* the built-in exceptions the handler can meet; all derive from Exception
ExceptionClasses ==
    {"UnicodeDecodeError", "TypeError", "AttributeError", "KeyError",
     "UnboundLocalError", "SendError"}

\* `key in container` for a str key
Contains(container, key) ==
    CASE container.t = "dict" -> Ok(DictHas(container, key))
      [] container.t = "str"  -> Ok(\E i \in 1..(Len(container.s) - Len(key) + 1) :
                                         StartsWith(container.s, i, key))
      [] container.t = "list" ->
            Ok(\E i \in 1..Len(container.items) : container.items[i] = PyStr(key))
      [] OTHER -> Raise("TypeError")

\* container[key] for a str key
Subscript(container, key) ==
    CASE container.t = "dict" ->
            IF DictHas(container, key) THEN Ok(DictGet(container, key))
            ELSE Raise("KeyError")
      [] OTHER -> Raise("TypeError")

\* container.get(key, default): only a dict has .get
GetOr(container, key, default) ==
    IF container.t # "dict" THEN Raise("AttributeError")
    ELSE IF DictHas(container, key) THEN Ok(DictGet(container, key))
    ELSE Ok(default)

\* a mutant of SliceLast5: the whole value, not its last five items
SliceLast5_Whole(value) ==
    IF value.t \in {"str", "list"} THEN [exc |-> "none", val |-> value]
    ELSE [exc |-> "TypeError"]

\* value[-5:]
SliceLast5(value) ==
    CASE value.t = "str"  -> Ok(PyStr(Last5(value.s)))
      [] value.t = "list" -> Ok(PyList(Last5(value.items)))
      [] OTHER -> Raise("TypeError")

\* value.lower(): only a str has .lower
LowerOf(value) ==
    IF value.t = "str" THEN Ok(PyStr(Lower(value.s))) ELSE Raise("AttributeError")

RECURSIVE PyRepr(_)
RECURSIVE JoinReprs(_, _)
RECURSIVE JoinItems(_, _)

\* ", ".join of the reprs of items[i..]
JoinReprs(items, i) ==
    IF i > Len(items) THEN <<>>
    ELSE (IF i > 1 THEN <<",", " ">> ELSE <<>>) \o PyRepr(items[i]) \o JoinReprs(items, i + 1)

\* ", ".join of "key: value" for the pairs of a dict from the i-th on
JoinItems(d, i) ==
    IF i > Len(d.keys) THEN <<>>
    ELSE (IF i > 1 THEN <<",", " ">> ELSE <<>>)
         \o PyRepr(PyStr(d.keys[i])) \o <<":", " ">> \o PyRepr(d.vals[i])
         \o JoinItems(d, i + 1)

\* repr(v), exact for strings without quote, backslash or control character
\* and for numbers written in canonical form
PyRepr(v) ==
    CASE v.t = "str"      -> <<"'">> \o v.s \o <<"'">>
      [] v.t = "number"   -> v.lit
      [] v.t = "NoneType" -> <<"N","o","n","e">>
      [] v.t = "bool"     -> IF v.b THEN <<"T","r","u","e">> ELSE <<"F","a","l","s","e">>
      [] v.t = "list"     -> <<"[">> \o JoinReprs(v.items, 1) \o <<"]">>
      [] v.t = "dict"     -> <<"{">> \o JoinItems(v, 1) \o <<"}">>

\* format(v) inside an f-string: a str as it is, anything else by its repr
FormatValue(v) == IF v.t = "str" THEN v.s ELSE PyRepr(v)

(***************************************************************************)
(* Payloads as bytes: a character stands for its ASCII byte, InvalidByte   *)
(* for a byte that no UTF-8 text contains.                                 *)
(***************************************************************************)

InvalidByte == "<0xFF>"

\* msg.payload.decode('utf-8')
Utf8Decode(payload) ==
    IF \E i \in 1..Len(payload) : payload[i] = InvalidByte
    THEN Raise("UnicodeDecodeError")
    ELSE Ok(payload)

(***************************************************************************)
(* Log records: what the service logger is handed                          *)
(***************************************************************************)

LogReceived(payload) == [level |-> "info", event |-> "Received", payload |-> payload]

LogSending(name, mac) ==
    [level |-> "info", event |-> "SendingWOL", name |-> name, mac |-> mac]

LogSentUnicast(name, ip) ==
    [level |-> "info", event |-> "SentUnicast", name |-> name, ip |-> ip]

LogSentBroadcast(name) == [level |-> "info", event |-> "SentBroadcast", name |-> name]

LogFailedToSend(name) == [level |-> "error", event |-> "FailedToSend", name |-> name]

LogErrorProcessing(exc) == [level |-> "error", event |-> "ErrorProcessing", exc |-> exc]

LogNoTarget == [level |-> "warning", event |-> "NoTargetSpecified"]

LogNotFound(device_name) ==
    [level |-> "warning", event |-> "DeviceNotFound", device |-> device_name]

LogAvailable(names) == [level |-> "info", event |-> "AvailableDevices", names |-> names]

LogNoDevices == [level |-> "info", event |-> "NoDevicesConfigured"]

(***************************************************************************)
(* _wake_device                                                            *)
(***************************************************************************)

\* what one call of a handler's helper did: the records logged, the calls of
\* send_magic_packet made, and the exception that left it ("none": returned)
Did(logs, sends, exc) == [logs |-> logs, sends |-> sends, exc |-> exc]

\* a call of send_magic_packet: with ip_address=..., or without (broadcast)
UnicastCall(mac, ip) == [mac |-> mac, unicast |-> TRUE, ip |-> ip]

BroadcastCall(mac) == [mac |-> mac, unicast |-> FALSE, ip |-> PyNone]

\* a mutant of SendCall: the ip_address is never passed on
SendCall_AlwaysBroadcast(mac_address, ip_address) == BroadcastCall(mac_address)

\* `if ip_address:` picks the call (lines 160-165)
SendCall(mac_address, ip_address) ==
    IF Truthy(ip_address) THEN UnicastCall(mac_address, ip_address)
    ELSE BroadcastCall(mac_address)

\* a mutant of SendCalls: a send that failed is made once more
SendCalls_Retry(mac_address, ip_address, sendOk) ==
    IF sendOk THEN <<SendCall(mac_address, ip_address)>>
    ELSE <<SendCall(mac_address, ip_address), SendCall(mac_address, ip_address)>>

\* the calls of send_magic_packet one _wake_device makes once it has its fields
SendCalls(mac_address, ip_address, sendOk) == <<SendCall(mac_address, ip_address)>>

\* `except Exception` of _wake_device (line 167)
WakeExceptCatches(exc) == exc \in ExceptionClasses

\* lines 158-168 once the three fields are read.  sendOk: whether
\* send_magic_packet returns (TRUE) or raises (FALSE)
WakeSend(mac_address, device_name, ip_address, sendOk) ==
    IF sendOk
    THEN Did(<<LogSending(device_name, mac_address),
               IF Truthy(ip_address) THEN LogSentUnicast(device_name, ip_address)
               ELSE LogSentBroadcast(device_name)>>,
             SendCalls(mac_address, ip_address, sendOk), "none")
    ELSE IF WakeExceptCatches("SendError")
         THEN Did(<<LogSending(device_name, mac_address), LogFailedToSend(device_name)>>,
                  SendCalls(mac_address, ip_address, sendOk), "none")
         ELSE Did(<<LogSending(device_name, mac_address)>>,
                  SendCalls(mac_address, ip_address, sendOk), "SendError")

\* lines 154-156 once the subscripts mac and name are evaluated
WakeFields(device_config, mac, name, sendOk) ==
    IF mac.exc # "none" \/ name.exc # "none"
    THEN \* KeyError at line 154 or 155; the except clause formats
         \* device_name, which is not bound yet
         IF WakeExceptCatches("KeyError") THEN Did(<<>>, <<>>, "UnboundLocalError")
         ELSE Did(<<>>, <<>>, "KeyError")
    ELSE WakeSend(mac.val, name.val, GetOr(device_config, K_ip_address, PyNone).val, sendOk)

_wake_device(device_config, sendOk) ==
    WakeFields(device_config, Subscript(device_config, K_mac_address),
               Subscript(device_config, K_name), sendOk)

(***************************************************************************)
(* The configuration: config['devices'] may be absent                      *)
(***************************************************************************)

\* self.config.get('devices', [])
ConfigDevices(cfg) == IF cfg.has_devices THEN cfg.devices ELSE <<>>

RECURSIVE TextsOf(_)
\* the characters of each str of a sequence
TextsOf(strs) == IF strs = <<>> THEN <<>> ELSE <<Head(strs).s>> \o TextsOf(Tail(strs))

RECURSIVE NamesOf(_, _)

\* the names from the i-th entry on, once its name n and the rest are read
NamesCons(n, rest) ==
    IF n.exc # "none" THEN Raise(n.exc)
    ELSE IF rest.exc # "none" THEN Raise(rest.exc)
    ELSE Ok(<<n.val>> \o rest.val)

\* [device['name'] for device in devices] from the i-th on
NamesOf(devices, i) ==
    IF i > Len(devices) THEN Ok(<<>>)
    ELSE NamesCons(Subscript(devices[i], K_name), NamesOf(devices, i + 1))

\* line 175: ', '.join(device_names) and the log record
JoinNames(names) ==
    IF names.exc # "none" THEN Did(<<>>, <<>>, names.exc)
    ELSE IF \E i \in 1..Len(names.val) : names.val[i].t # "str"
         THEN Did(<<>>, <<>>, "TypeError")
    ELSE Did(<<LogAvailable(TextsOf(names.val))>>, <<>>, "none")

_list_available_devices(cfg) ==
    IF Len(ConfigDevices(cfg)) > 0 THEN JoinNames(NamesOf(ConfigDevices(cfg), 1))
    ELSE Did(<<LogNoDevices>>, <<>>, "none")

\* a mutant of FindDevice: the last entry of the name, not the first
FindDevice_LastMatch(devices, i, device_name) ==
    LET hits == {j \in i..Len(devices) :
                    /\ DictHas(devices[j], K_name)
                    /\ DictGet(devices[j], K_name).t = "str"
                    /\ Lower(DictGet(devices[j], K_name).s) = device_name}
    IN  IF hits = {} THEN [exc |-> "none", found |-> FALSE]
        ELSE [exc |-> "none", found |-> TRUE,
              entry |-> devices[CHOOSE j \in hits : \A k \in hits : k <= j]]

RECURSIVE FindDevice(_, _, _)

\* line 136 for the i-th entry, once device['name'].lower() is evaluated to l
NameMatches(devices, i, device_name, l) ==
    IF l.exc # "none" THEN Raise(l.exc)
    ELSE IF l.val.s = device_name
         THEN [exc |-> "none", found |-> TRUE, entry |-> devices[i]]
    ELSE FindDevice(devices, i + 1, device_name)

\* line 136 for the i-th entry, once device['name'] is evaluated to n
NameOfEntry(devices, i, device_name, n) ==
    IF n.exc # "none" THEN Raise(n.exc)
    ELSE NameMatches(devices, i, device_name, LowerOf(n.val))

\* the loop of lines 135-138 from the i-th entry on: the first entry whose
\* lower-cased name is device_name
FindDevice(devices, i, device_name) ==
    IF i > Len(devices) THEN [exc |-> "none", found |-> FALSE]
    ELSE NameOfEntry(devices, i, device_name, Subscript(devices[i], K_name))

(***************************************************************************)
(* _on_message                                                             *)
(***************************************************************************)

\* what the handler did with one message: the records logged, the
\* device_config of each call of _wake_device, the calls of
\* send_magic_packet, how often config['devices'] was read, and the
\* exception that left the handler ("none": it returned)
Handled(logs, wakes, sends, dirReads, exc) ==
    [logs |-> logs, wakes |-> wakes, sends |-> sends, dirReads |-> dirReads,
     exc |-> exc]

\* a mutant of PlainText: every plain text is read as a device name
PlainText_NameOnly(payload_clean) == PyDict(<<K_device>>, <<PyStr(payload_clean)>>)

\* lines 106-109: the plain-text reading of the stripped payload
PlainText(payload_clean) ==
    IF _is_mac_address(payload_clean)
    THEN PyDict(<<K_mac_address>>, <<PyStr(payload_clean)>>)
    ELSE PyDict(<<K_device>>, <<PyStr(payload_clean)>>)

\* lines 101-109 once json.loads has returned r or raised JSONDecodeError
MessageData(payload, r) == IF r.ok THEN r.val ELSE PlainText(Strip(payload))

\* lines 101-109: json.loads, and on JSONDecodeError the plain-text reading
ParseMessage(payload) == MessageData(payload, JsonLoads(payload))

\* line 123: device_config is handed to _wake_device, whose effect is w
DirectWake(device_config, w, logs) ==
    Handled(logs \o w.logs, <<device_config>>, w.sends, 0, w.exc)

\* lines 117-124 once device_config is built
DirectConfig(device_config, sendOk, logs) ==
    DirectWake(device_config, _wake_device(device_config, sendOk), logs)

\* lines 115-123 once mac_address[-5:] is evaluated to last5
DirectName(message_data, mac_address, ip_address, last5, sendOk, logs) ==
    IF last5.exc # "none" THEN Handled(logs, <<>>, <<>>, 0, last5.exc)
    ELSE DirectConfig(
            PyDict(<<K_name, K_mac_address, K_ip_address>>,
                   <<GetOr(message_data, K_device,
                           PyStr(DevicePrefix \o FormatValue(last5.val))).val,
                     mac_address, ip_address>>),
            sendOk, logs)

\* lines 113-115 once message_data['mac_address'] is evaluated to mac
DirectFields(message_data, mac, sendOk, logs) ==
    IF mac.exc # "none" THEN Handled(logs, <<>>, <<>>, 0, mac.exc)
    ELSE DirectName(message_data, mac.val, GetOr(message_data, K_ip_address, PyNone).val,
                    SliceLast5(mac.val), sendOk, logs)

\* lines 113-124: the message names the MAC address itself
DirectMac(message_data, sendOk, logs) ==
    DirectFields(message_data, Subscript(message_data, K_mac_address), sendOk, logs)

\* lines 140-143: no entry matched; l is what _list_available_devices did
NotFound(device_name, l, logs) ==
    Handled(Append(logs, LogNotFound(device_name)) \o l.logs, <<>>, <<>>, 2, l.exc)

\* line 146: the entry found is handed to _wake_device, whose effect is w
LookupWake(device_config, w, logs) ==
    Handled(logs \o w.logs, <<device_config>>, w.sends, 1, w.exc)

\* lines 140-146 once the loop has ended with f
AfterLoop(cfg, device_name, f, sendOk, logs) ==
    IF f.exc # "none" THEN Handled(logs, <<>>, <<>>, 1, f.exc)
    ELSE IF ~f.found \/ ~Truthy(f.entry)
         THEN NotFound(device_name, _list_available_devices(cfg), logs)
    ELSE LookupWake(f.entry, _wake_device(f.entry, sendOk), logs)

\* lines 127-146 once .lower() of the device field is evaluated to low
LookupName(cfg, low, sendOk, logs) ==
    IF low.exc # "none" THEN Handled(logs, <<>>, <<>>, 0, low.exc)
    ELSE IF ~Truthy(low.val)
         THEN Handled(Append(logs, LogNoTarget), <<>>, <<>>, 0, "none")
    ELSE AfterLoop(cfg, low.val.s, FindDevice(ConfigDevices(cfg), 1, low.val.s),
                   sendOk, logs)

\* line 127 once message_data.get('device', '') is evaluated to dev
LookupField(cfg, dev, sendOk, logs) ==
    IF dev.exc # "none" THEN Handled(logs, <<>>, <<>>, 0, dev.exc)
    ELSE LookupName(cfg, LowerOf(dev.val), sendOk, logs)

\* lines 127-146: the message names a device of the configuration
LookupDevice(cfg, message_data, sendOk, logs) ==
    LookupField(cfg, GetOr(message_data, K_device, PyStr(<<>>)), sendOk, logs)

\* a mutant of TakesDirectMacPath: a message with a device field is looked
\* up in the configuration even when it names a MAC address
TakesDirectMacPath_DeviceFirst(message_data) ==
    IF Contains(message_data, K_mac_address).exc # "none"
    THEN Contains(message_data, K_mac_address)
    ELSE Ok(Contains(message_data, K_mac_address).val
            /\ ~(message_data.t = "dict" /\ DictHas(message_data, K_device)))

\* line 112: if 'mac_address' in message_data
TakesDirectMacPath(message_data) == Contains(message_data, K_mac_address)

\* lines 112-146 once the test of line 112 is evaluated to direct
Branch(cfg, message_data, direct, sendOk, logs) ==
    IF direct.exc # "none" THEN Handled(logs, <<>>, <<>>, 0, direct.exc)
    ELSE IF direct.val THEN DirectMac(message_data, sendOk, logs)
    ELSE LookupDevice(cfg, message_data, sendOk, logs)

\* lines 101-146 once the payload is parsed to message_data
Dispatch(cfg, message_data, sendOk, logs) ==
    Branch(cfg, message_data, TakesDirectMacPath(message_data), sendOk, logs)

\* lines 98-146 once the payload is decoded to text
Decoded(cfg, text, sendOk) ==
    IF text.exc # "none" THEN Handled(<<>>, <<>>, <<>>, 0, text.exc)
    ELSE Dispatch(cfg, ParseMessage(text.val), sendOk, <<LogReceived(text.val)>>)

\* the body of the try statement, lines 96-146
TryBody(cfg, payload, sendOk) == Decoded(cfg, Utf8Decode(payload), sendOk)

\* a mutant of OuterExceptCatches: only the errors of a lookup are caught
OuterExceptCatches_LookupOnly(exc) == exc \in {"KeyError"}

\* `except Exception` of _on_message (line 148)
OuterExceptCatches(exc) == exc \in ExceptionClasses

\* lines 148-149 once the body of the try statement has done r
Caught(r) ==
    IF r.exc # "none" /\ OuterExceptCatches(r.exc)
    THEN Handled(Append(r.logs, LogErrorProcessing(r.exc)),
                 r.wakes, r.sends, r.dirReads, "none")
    ELSE r

_on_message(cfg, payload, sendOk) == Caught(TryBody(cfg, payload, sendOk))

(***************************************************************************)
(* The inputs of the model: configurations and payloads                    *)
(***************************************************************************)

\* six groups joined by five separators
MacText(groups, seps) ==
    groups[1] \o <<seps[1]>> \o groups[2] \o <<seps[2]>> \o groups[3] \o <<seps[3]>>
    \o groups[4] \o <<seps[4]>> \o groups[5] \o <<seps[5]>> \o groups[6]

GroupsUpper == <<<<"A","A">>, <<"B","B">>, <<"C","C">>, <<"D","D">>, <<"E","E">>, <<"F","F">>>>

GroupsLower == <<<<"a","a">>, <<"b","b">>, <<"c","c">>, <<"d","d">>, <<"e","e">>, <<"f","f">>>>

GroupsDigits == <<<<"1","1">>, <<"2","2">>, <<"3","3">>, <<"4","4">>, <<"5","5">>, <<"6","6">>>>

\* AA:BB:CC:DD:EE:FF
MacA == MacText(GroupsUpper, <<":", ":", ":", ":", ":">>)

\* 11:22:33:44:55:66
MacB == MacText(GroupsDigits, <<":", ":", ":", ":", ":">>)

\* aa-bb-cc-dd-ee-ff
MacC == MacText(GroupsLower, <<"-", "-", "-", "-", "-">>)

\* AA:BB-CC:DD-EE:FF, separators mixed
MacMixed == MacText(GroupsUpper, <<":", "-", ":", "-", ":">>)

\* no MAC address at all
MacBad == <<"z", "z">>

IpA == <<"1","0",".","0",".","0",".","5">>

IpB == <<"1","0",".","0",".","0",".","7">>

T_PC == <<"P","C">>

T_pc == <<"p","c">>

T_nas == <<"n","a","s">>

T_ghost == <<"g","h","o","s","t">>

T_123 == <<"1","2","3">>

T_bad == <<"b","a","d">>

\* a directory entry {name, mac_address, ip_address}
Entry(name, mac, ip) ==
    PyDict(<<K_name, K_mac_address, K_ip_address>>, <<PyStr(name), PyStr(mac), PyStr(ip)>>)

\* a directory entry {name, mac_address}
EntryNoIp(name, mac) == PyDict(<<K_name, K_mac_address>>, <<PyStr(name), PyStr(mac)>>)

\* no `devices` key in the configuration file
ConfigNoDirectory == [has_devices |-> FALSE, devices |-> <<>>]

\* devices: []
ConfigEmptyDirectory == [has_devices |-> TRUE, devices |-> <<>>]

\* a directory with an entry that has an IP address, entries that have none,
\* a name made of digits, an entry whose MAC address is malformed, and a
\* second entry named like the first up to letter case
ConfigHome ==
    [has_devices |-> TRUE,
     devices |-> <<Entry(T_PC, MacB, IpB), EntryNoIp(T_nas, MacC),
                   EntryNoIp(T_123, MacA), EntryNoIp(T_bad, MacBad),
                   EntryNoIp(T_pc, MacC)>>]

\* a directory with an entry that lacks its mac_address
ConfigBroken ==
    [has_devices |-> TRUE,
     devices |-> <<PyDict(<<K_name>>, <<PyStr(T_PC)>>), EntryNoIp(T_nas, MacC)>>]

\* a directory with an entry that lacks its name
ConfigNameless ==
    [has_devices |-> TRUE,
     devices |-> <<EntryNoIp(T_PC, MacB), PyDict(<<K_mac_address>>, <<PyStr(MacA)>>)>>]

RECURSIVE JsonText(_)
RECURSIVE JsonJoinList(_, _)
RECURSIVE JsonJoinDict(_, _)

JsonJoinList(items, i) ==
    IF i > Len(items) THEN <<>>
    ELSE (IF i > 1 THEN <<",", " ">> ELSE <<>>) \o JsonText(items[i])
         \o JsonJoinList(items, i + 1)

JsonJoinDict(d, i) ==
    IF i > Len(d.keys) THEN <<>>
    ELSE (IF i > 1 THEN <<",", " ">> ELSE <<>>)
         \o <<"\"">> \o d.keys[i] \o <<"\"", ":", " ">> \o JsonText(d.vals[i])
         \o JsonJoinDict(d, i + 1)

\* the JSON text a publisher sends for a value (strings here need no escape)
JsonText(v) ==
    CASE v.t = "str"      -> <<"\"">> \o v.s \o <<"\"">>
      [] v.t = "number"   -> v.lit
      [] v.t = "NoneType" -> <<"n","u","l","l">>
      [] v.t = "bool"     -> IF v.b THEN <<"t","r","u","e">> ELSE <<"f","a","l","s","e">>
      [] v.t = "list"     -> <<"[">> \o JsonJoinList(v.items, 1) \o <<"]">>
      [] v.t = "dict"     -> <<"{">> \o JsonJoinDict(v, 1) \o <<"}">>

\* a field of a published object: absent (<<>>) or present with a value
MacFieldChoices == {<<PyStr(MacA)>>, <<PyStr(MacBad)>>, <<PyNum(T_123)>>}

IpFieldChoices == {<<>>, <<PyStr(IpA)>>, <<PyStr(<<>>)>>, <<PyNone>>}

DeviceFieldChoices ==
    {<<>>, <<PyStr(T_PC)>>, <<PyStr(T_ghost)>>, <<PyNum(T_123)>>, <<PyStr(<<>>)>>}

\* the object with the chosen fields, in the order mac_address, ip_address, device
ObjectOf(mac, ip, dev) ==
    PyDict((IF mac = <<>> THEN <<>> ELSE <<K_mac_address>>)
           \o (IF ip = <<>> THEN <<>> ELSE <<K_ip_address>>)
           \o (IF dev = <<>> THEN <<>> ELSE <<K_device>>),
           mac \o ip \o dev)

\* objects that carry a mac_address field, and objects that carry none
ObjectPayloads ==
    {JsonText(ObjectOf(m, i, d)) :
        m \in MacFieldChoices, i \in IpFieldChoices,
        d \in {<<>>, <<PyStr(T_PC)>>, <<PyNum(T_123)>>}}
    \cup
    {JsonText(ObjectOf(<<>>, i, d)) :
        i \in {<<>>, <<PyStr(IpA)>>}, d \in DeviceFieldChoices}

\* JSON texts that are no object, and an object with neither field
OtherJsonPayloads ==
    {T_123, <<"t","r","u","e">>, <<"n","u","l","l">>,
     JsonText(PyStr(T_PC)), JsonText(PyStr(K_mac_address)),
     JsonText(PyList(<<>>)), JsonText(PyList(<<PyStr(K_mac_address)>>)),
     JsonText(PyDict(<<<<"f","o","o">>>>, <<PyStr(T_bad)>>)),
     JsonText(PyDict(<<K_mac_address>>, <<PyNone>>)),
     JsonText(PyDict(<<K_mac_address>>, <<PyList(<<PyStr(<<"a">>)>>)>>))}

\* texts that json.loads rejects
PlainTextPayloads ==
    {T_PC, T_pc, <<" ">> \o T_pc \o <<"\n">>, T_nas, T_ghost, T_bad, <<>>, <<" ", " ">>,
     MacA, MacC, MacMixed, <<" ">> \o MacA \o <<"\n">>,
     <<"0">> \o T_123,
     <<"n","o","t"," ","j","s","o","n"," ","{","{","{">>}

\* byte strings that are no UTF-8
InvalidUtf8Payloads == {<<InvalidByte>>, T_pc \o <<InvalidByte>>}

Payloads ==
    ObjectPayloads \cup OtherJsonPayloads \cup PlainTextPayloads \cup InvalidUtf8Payloads

ConfigNames == {"NoDirectory", "EmptyDirectory", "Home", "Broken", "Nameless"}

ConfigNamed(n) ==
    CASE n = "NoDirectory"    -> ConfigNoDirectory
      [] n = "EmptyDirectory" -> ConfigEmptyDirectory
      [] n = "Home"           -> ConfigHome
      [] n = "Broken"         -> ConfigBroken
      [] n = "Nameless"       -> ConfigNameless

\* the name of a configuration of the model
ConfigName(cfg) == CHOOSE n \in ConfigNames : ConfigNamed(n) = cfg

\* _on_message on every input of the model, computed once:
\* OnMessageTable[ConfigName(cfg), payload, sendOk] = _on_message(cfg, payload, sendOk)
OnMessageTable ==
    [n \in ConfigNames, payload \in Payloads, sendOk \in BOOLEAN |->
        _on_message(ConfigNamed(n), payload, sendOk)]

(***************************************************************************)
(* Inputs of the pattern check                                             *)
(***************************************************************************)

\* six two-digit groups under every choice of the five separators, and
\* texts of another shape: groups missing or added, a digit missing or added,
\* a character that is no hex digit, another separator, white space around
MacInputs ==
    {MacText(g, seps) : g \in {GroupsUpper, GroupsLower, GroupsDigits},
                        seps \in [1..5 -> MacSeparators]}
    \cup
    {<<>>, MacBad, T_PC,
     SubSeq(MacA, 1, 14), MacA \o <<":", "0", "0">>,
     SubSeq(MacA, 2, 17), MacA \o <<"0">>,
     <<"G">> \o SubSeq(MacA, 2, 17),
     MacText(GroupsUpper, <<".", ".", ".", ".", ".">>),
     <<"A","A","B","B","C","C","D","D","E","E","F","F">>,
     <<" ">> \o MacA, MacA \o <<" ">>, MacA \o <<"\n">>, MacA \o <<"\n", "\n">>}

(***************************************************************************)
(* The service as a state machine.  The main thread runs run(); the MQTT   *)
(* network thread started by loop_start() runs the callbacks one at a      *)
(* time; a signal runs _signal_handler on the main thread.                 *)
(***************************************************************************)

\* how many messages a run of the model delivers
MaxMessages == 2

\* how many messages an observed run delivers
MaxObserved == 3

\* how many acknowledged connections an observed run counts
MaxConnects == 2

\* the payloads of an observed run: a name of the directory, a name it lacks,
\* a MAC address in a JSON object, and a text that ends in a processing error
ObservedPayloads ==
    {T_pc, T_ghost, JsonText(ObjectOf(<<PyStr(MacA)>>, <<>>, <<>>)), T_123}

VARIABLES
    config,        \* self.config, as loaded by __init__
    running,       \* self.running
    mainPc,        \* where the main thread is: in __init__, in run(), or done
    loopAlive,     \* the network thread of loop_start() is running
    connected,     \* the broker has acknowledged the connection
    subscribed,    \* the broker holds the subscription of this session
    lastPayload,   \* the payload of the latest message
    last,          \* what _on_message did with the latest message
    msgCount,      \* messages delivered so far
    sendCount,     \* calls of send_magic_packet so far
    failedEarlier, \* a message before the latest ended in an error
    macInput,      \* the text handed to _is_mac_address
    macChecked,    \* _is_mac_address has returned
    macResult,     \* what it returned
    startup,       \* the configuration file, and what _load_config logged and raised
    observed,      \* the run keeps the history below
    signalled,     \* _signal_handler has run
    connects,      \* acknowledged connections so far
    firstPayload,  \* the payload of the first message
    first          \* what _on_message did with the first message

vars ==
    <<config, running, mainPc, loopAlive, connected, subscribed, lastPayload, last,
      msgCount, sendCount, failedEarlier, macInput, macChecked, macResult,
      startup, observed, signalled, connects, firstPayload, first>>

macVars == <<macInput, macChecked, macResult>>

messageVars == <<lastPayload, last, msgCount, sendCount, failedEarlier>>

setupVars == <<startup, observed>>

historyVars == <<signalled, connects, firstPayload, first>>

NothingHandled == Handled(<<>>, <<>>, <<>>, 0, "none")

\* _load_config, lines 40-48.  A missing file raises FileNotFoundError and a
\* file that is no YAML raises yaml.YAMLError; the handler of either logs
\* through self.logger and calls sys.exit(1).  Without the attribute
\* self.logger the handler raises AttributeError before it logs or exits.
_load_config(file, hasLogger) ==
    IF file = "valid" THEN [logs |-> <<>>, exc |-> "none"]
    ELSE IF ~hasLogger THEN [logs |-> <<>>, exc |-> "AttributeError"]
    ELSE [logs |-> <<[level |-> "error",
                      event |-> IF file = "missing" THEN "ConfigFileNotFound"
                                ELSE "ConfigParseError"]>>,
          exc |-> "SystemExit"]

\* before __init__: the configuration file is valid, missing or no YAML, and
\* nothing has run
Unstarted ==
    /\ startup \in [file : {"valid", "missing", "invalid"}, logs : {<<>>}, exc : {"none"}]
    /\ config \in IF startup.file = "valid" THEN {ConfigNamed(n) : n \in ConfigNames}
                 ELSE {ConfigNoDirectory}
    /\ running = FALSE
    /\ mainPc = "init"
    /\ loopAlive = FALSE
    /\ connected = FALSE
    /\ subscribed = FALSE
    /\ lastPayload = <<>>
    /\ last = NothingHandled
    /\ msgCount = 0
    /\ sendCount = 0
    /\ failedEarlier = FALSE
    /\ macChecked = FALSE
    /\ macResult = FALSE
    /\ signalled = FALSE
    /\ connects = 0
    /\ firstPayload = <<>>
    /\ first = NothingHandled

Init ==
    /\ Unstarted
    /\ observed = FALSE
    /\ macInput = <<>>

\* __init__, lines 26-36: _load_config runs at line 26, before self.logger is
\* set at line 32; an exception that leaves it ends the process, otherwise
\* running is False and the signal handlers are installed
__init__ ==
    /\ mainPc = "init"
    /\ startup' = [startup EXCEPT !.logs = _load_config(startup.file, FALSE).logs,
                                  !.exc = _load_config(startup.file, FALSE).exc]
    /\ mainPc' = IF startup'.exc = "none" THEN "start" ELSE "done"
    /\ running' = FALSE
    /\ UNCHANGED <<config, loopAlive, connected, subscribed, observed>>
    /\ UNCHANGED messageVars
    /\ UNCHANGED macVars
    /\ UNCHANGED historyVars

\* run(), lines 207-215: the devices are listed; an exception of
\* _list_available_devices leaves run() and ends the process
RunStart ==
    /\ mainPc = "start"
    /\ mainPc' = IF _list_available_devices(config).exc = "none" THEN "connect" ELSE "done"
    /\ UNCHANGED <<config, running, loopAlive, connected, subscribed>>
    /\ UNCHANGED messageVars
    /\ UNCHANGED macVars
    /\ UNCHANGED setupVars
    /\ UNCHANGED historyVars

\* run(), line 221: connect() returns, or raises and run() returns (line 224)
RunConnect ==
    /\ mainPc = "connect"
    /\ \E ok \in BOOLEAN : mainPc' = IF ok THEN "loop_start" ELSE "done"
    /\ UNCHANGED <<config, running, loopAlive, connected, subscribed>>
    /\ UNCHANGED messageVars
    /\ UNCHANGED macVars
    /\ UNCHANGED setupVars
    /\ UNCHANGED historyVars

\* run(), line 227: loop_start()
RunLoopStart ==
    /\ mainPc = "loop_start"
    /\ mainPc' = "set_running"
    /\ loopAlive' = TRUE
    /\ UNCHANGED <<config, running, connected, subscribed>>
    /\ UNCHANGED messageVars
    /\ UNCHANGED macVars
    /\ UNCHANGED setupVars
    /\ UNCHANGED historyVars

\* run(), line 228: self.running = True
RunSetRunning ==
    /\ mainPc = "set_running"
    /\ mainPc' = "wait"
    /\ running' = TRUE
    /\ UNCHANGED <<config, loopAlive, connected, subscribed>>
    /\ UNCHANGED messageVars
    /\ UNCHANGED macVars
    /\ UNCHANGED setupVars
    /\ UNCHANGED historyVars

\* run(), lines 232-233: the loop ends once running is false
RunWaitEnds ==
    /\ mainPc = "wait"
    /\ ~running
    /\ mainPc' = "finally"
    /\ UNCHANGED <<config, running, loopAlive, connected, subscribed>>
    /\ UNCHANGED messageVars
    /\ UNCHANGED macVars
    /\ UNCHANGED setupVars
    /\ UNCHANGED historyVars

\* run(), lines 237-239: loop_stop() and disconnect()
RunFinally ==
    /\ mainPc = "finally"
    /\ mainPc' = "done"
    /\ loopAlive' = FALSE
    /\ connected' = FALSE
    /\ subscribed' = FALSE
    /\ UNCHANGED <<config, running>>
    /\ UNCHANGED messageVars
    /\ UNCHANGED macVars
    /\ UNCHANGED setupVars
    /\ UNCHANGED historyVars

\* _signal_handler: SIGINT or SIGTERM once the handlers are installed (lines
\* 35-36) and while the process lives
SignalHandler ==
    /\ mainPc \notin {"init", "done"}
    /\ running' = FALSE
    /\ signalled' = (signalled \/ observed)
    /\ UNCHANGED <<config, mainPc, loopAlive, connected, subscribed>>
    /\ UNCHANGED messageVars
    /\ UNCHANGED macVars
    /\ UNCHANGED setupVars
    /\ UNCHANGED <<connects, firstPayload, first>>

\* a mutant of OnConnectRc: the topic is subscribed whatever the return code
OnConnectRc_SubscribesAlways(rc) ==
    /\ loopAlive
    /\ ~connected
    /\ connected' = (rc = 0)
    /\ subscribed' = TRUE
    /\ connects' = connects
    /\ UNCHANGED <<config, running, mainPc, loopAlive>>
    /\ UNCHANGED messageVars
    /\ UNCHANGED macVars
    /\ UNCHANGED setupVars
    /\ UNCHANGED <<signalled, firstPayload, first>>

\* _on_connect with return code rc: rc = 0 subscribes (line 81), any other
\* rc is only logged (line 84)
OnConnectRc(rc) ==
    /\ loopAlive
    /\ ~connected
    /\ connected' = (rc = 0)
    /\ subscribed' = IF rc = 0 THEN TRUE ELSE subscribed
    /\ connects' = IF observed /\ rc = 0 /\ connects < MaxConnects
                   THEN connects + 1 ELSE connects
    /\ UNCHANGED <<config, running, mainPc, loopAlive>>
    /\ UNCHANGED messageVars
    /\ UNCHANGED macVars
    /\ UNCHANGED setupVars
    /\ UNCHANGED <<signalled, firstPayload, first>>

\* _on_connect for an acknowledgement of the broker
OnConnect == \E rc \in {0, 5} : OnConnectRc(rc)

\* _on_disconnect: logs; the connection and its subscription are gone
OnDisconnect ==
    /\ loopAlive
    /\ connected
    /\ connected' = FALSE
    /\ subscribed' = FALSE
    /\ UNCHANGED <<config, running, mainPc, loopAlive>>
    /\ UNCHANGED messageVars
    /\ UNCHANGED macVars
    /\ UNCHANGED setupVars
    /\ UNCHANGED historyVars

\* a message ended in an error: logged at level error, or an exception left
Failed(r) ==
    \/ r.exc # "none"
    \/ \E i \in 1..Len(r.logs) : r.logs[i].level = "error"

\* a mutant of Delivered: a message that names no target is given the target
\* of the message before it
Delivered_KeepsTarget(payload, r) ==
    /\ last' = IF r.wakes = <<>> THEN [r EXCEPT !.wakes = last.wakes] ELSE r
    /\ lastPayload' = payload
    /\ sendCount' = sendCount + Len(r.sends)
    /\ loopAlive' = (r.exc = "none")

\* the state after _on_message has done r with the payload.  An exception
\* that leaves the callback ends the network thread.
Delivered(payload, r) ==
    /\ last' = r
    /\ lastPayload' = payload
    /\ sendCount' = sendCount + Len(r.sends)
    /\ loopAlive' = (r.exc = "none")

\* a mutant of DirectoryAfter: an entry that was woken is dropped with the
\* rest of the directory
DirectoryAfter_Forgets(cfg, r) ==
    IF r.wakes # <<>> /\ ConfigDevices(cfg) # <<>> THEN ConfigEmptyDirectory ELSE cfg

\* self.config after _on_message has done r: lines 135-136 and 154-156 only
\* read the directory and its entries, and device_config of line 117 is a
\* new dict
DirectoryAfter(cfg, r) == cfg

\* _on_message for one delivered message
OnMessage ==
    /\ loopAlive
    /\ subscribed
    /\ msgCount < (IF observed THEN MaxObserved ELSE MaxMessages)
    /\ \E payload \in (IF observed THEN ObservedPayloads ELSE Payloads),
          sendOk \in BOOLEAN :
          Delivered(payload, OnMessageTable[ConfigName(config), payload, sendOk])
    /\ config' = DirectoryAfter(config, last')
    /\ msgCount' = msgCount + 1
    /\ failedEarlier' = (failedEarlier \/ (msgCount > 0 /\ Failed(last)))
    /\ firstPayload' = IF observed /\ msgCount = 0 THEN lastPayload' ELSE firstPayload
    /\ first' = IF observed /\ msgCount = 0 THEN last' ELSE first
    /\ UNCHANGED <<running, mainPc, connected, subscribed>>
    /\ UNCHANGED macVars
    /\ UNCHANGED setupVars
    /\ UNCHANGED <<signalled, connects>>

Next ==
    \/ __init__
    \/ RunStart
    \/ RunConnect
    \/ RunLoopStart
    \/ RunSetRunning
    \/ RunWaitEnds
    \/ RunFinally
    \/ SignalHandler
    \/ OnConnect
    \/ OnDisconnect
    \/ OnMessage

Spec == Init /\ [][Next]_vars

(***************************************************************************)
(* An observed run: fewer payloads, and the history of signals, of         *)
(* acknowledged connections and of the first message is kept.  The main    *)
(* thread keeps taking its steps.                                          *)
(***************************************************************************)

InitObserved ==
    /\ Unstarted
    /\ observed = TRUE
    /\ macInput = <<>>

SpecObserved ==
    /\ InitObserved
    /\ [][Next]_vars
    /\ WF_vars(__init__)
    /\ WF_vars(RunStart)
    /\ WF_vars(RunConnect)
    /\ WF_vars(RunLoopStart)
    /\ WF_vars(RunSetRunning)
    /\ WF_vars(RunWaitEnds)
    /\ WF_vars(RunFinally)

(***************************************************************************)
(* _is_mac_address on its own: a text is chosen, the check is applied       *)
(***************************************************************************)

InitMac ==
    /\ Unstarted
    /\ startup.file = "valid"
    /\ config = ConfigNoDirectory
    /\ observed = FALSE
    /\ macInput \in MacInputs

CheckMac ==
    /\ ~macChecked
    /\ macChecked' = TRUE
    /\ macResult' = _is_mac_address(macInput)
    /\ UNCHANGED macInput
    /\ UNCHANGED <<config, running, mainPc, loopAlive, connected, subscribed>>
    /\ UNCHANGED messageVars
    /\ UNCHANGED setupVars
    /\ UNCHANGED historyVars

NextMac == CheckMac

SpecMac == InitMac /\ [][NextMac]_vars

(***************************************************************************)
(* What the claims speak of, said of the latest message                    *)
(***************************************************************************)

\* the latest record logged at level error or warning, or "none"
RECURSIVE LastProblem(_, _)
LastProblem(logs, i) ==
    IF i = 0 THEN "none"
    ELSE IF logs[i].level \in {"error", "warning"} THEN logs[i].event
    ELSE LastProblem(logs, i - 1)

\* the outcome of a message as the log tells it
Outcome(r) ==
    IF r.exc # "none" THEN "Raised"
    ELSE IF LastProblem(r.logs, Len(r.logs)) # "none"
         THEN LastProblem(r.logs, Len(r.logs))
    ELSE IF \E i \in 1..Len(r.logs) : r.logs[i].event \in {"SentUnicast", "SentBroadcast"}
         THEN "Sent"
    ELSE "Nothing"

\* a message has been handled: `last` is what _on_message did with lastPayload
MessageHandled == msgCount > 0

\* what json.loads makes of each payload of the model
PayloadJson == [p \in Payloads |-> JsonLoads(p)]

\* the message data of lines 101-109 for each payload of the model
PayloadData == [p \in Payloads |-> ParseMessage(p)]

\* the latest payload is UTF-8 text
LastIsText == \A i \in 1..Len(lastPayload) : lastPayload[i] # InvalidByte

\* the latest payload is the text of a JSON object
LastIsObject ==
    /\ LastIsText
    /\ PayloadJson[lastPayload].ok
    /\ PayloadJson[lastPayload].val.t = "dict"

\* the handler logged a record of this event for the latest message
Logged(event) == \E i \in 1..Len(last.logs) : last.logs[i].event = event

\* a directory entry as the configuration documents it: a name and a
\* mac_address, both strings
WellFormedEntry(e) ==
    /\ e.t = "dict"
    /\ DictHas(e, K_name) /\ DictGet(e, K_name).t = "str"
    /\ DictHas(e, K_mac_address) /\ DictGet(e, K_mac_address).t = "str"

WellFormedDirectory ==
    \A i \in 1..Len(ConfigDevices(config)) : WellFormedEntry(ConfigDevices(config)[i])

\* the i-th entry is the first of the directory named by the text up to letter case
FirstEntryNamed(i, text) ==
    /\ Lower(DictGet(ConfigDevices(config)[i], K_name).s) = Lower(text)
    /\ \A j \in 1..(i - 1) :
          Lower(DictGet(ConfigDevices(config)[j], K_name).s) # Lower(text)

\* no entry of the directory is named by the text up to letter case
NoEntryNamed(text) ==
    \A i \in 1..Len(ConfigDevices(config)) :
        Lower(DictGet(ConfigDevices(config)[i], K_name).s) # Lower(text)

\* the ip_address of a target, None when it has none
IpOf(target) ==
    IF DictHas(target, K_ip_address) THEN DictGet(target, K_ip_address) ELSE PyNone

\* _wake_device was handed a target that has a mac_address and a name
ResolvedTarget(r) ==
    /\ Len(r.wakes) = 1
    /\ DictHas(r.wakes[1], K_mac_address)
    /\ DictHas(r.wakes[1], K_name)

\* the device name a message supplies without a mac_address: the device field
\* of a JSON object, or the trimmed text of a payload that is a bare word
\* (no JSON object, array or string, and no MAC address); <<>> when it
\* supplies none
SuppliedName ==
    LET r == PayloadJson[lastPayload]
    IN  IF r.ok /\ r.val.t = "dict"
        THEN IF /\ ~DictHas(r.val, K_mac_address)
                /\ DictHas(r.val, K_device)
                /\ DictGet(r.val, K_device).t = "str"
             THEN DictGet(r.val, K_device).s
             ELSE <<>>
        ELSE IF r.ok /\ r.val.t \in {"list", "str"} THEN <<>>
        ELSE IF _is_mac_address(Strip(lastPayload)) THEN <<>>
        ELSE Strip(lastPayload)

\* the target _wake_device was handed has a name and a mac_address that
\* matches the MAC pattern
ValidTarget(r) ==
    /\ ResolvedTarget(r)
    /\ DictGet(r.wakes[1], K_mac_address).t = "str"
    /\ _is_mac_address(DictGet(r.wakes[1], K_mac_address).s)

(***************************************************************************)
(* The claims                                                              *)
(***************************************************************************)

\* C1: whatever the payload, _on_message returns without an exception leaving
\* it, the running flag, the connection, the subscription and the
\* configuration stay as they were, the network thread lives on, and what the
\* handler does with a message is what it does with that payload under that
\* configuration, whatever came before.
C1_HandlerReturnsAndServiceContinues ==
    [][msgCount' = msgCount + 1 =>
          /\ last'.exc = "none"
          /\ loopAlive'
          /\ running' = running
          /\ connected' = connected
          /\ subscribed' = subscribed
          /\ config' = config
          /\ \E sendOk \in BOOLEAN :
                last' = OnMessageTable[ConfigName(config), lastPayload', sendOk]]_vars

\* a wake packet is sent for the second message after the first one ended in
\* an error, and the service is still subscribed
C1_SentAfterFailure ==
    /\ msgCount = 2
    /\ failedEarlier
    /\ Outcome(last) = "Sent"
    /\ loopAlive
    /\ subscribed

\* C2: a JSON object with a mac_address field never has the directory read;
\* when the field is a string, _wake_device is called once with a target made
\* of that field, the ip_address field (None when absent) and the device
\* field (the default name when absent), and the packet goes to that MAC.
C2_MacFieldNeverConsultsDirectory ==
    (MessageHandled /\ LastIsObject
        /\ DictHas(PayloadJson[lastPayload].val, K_mac_address)) =>
    LET obj == PayloadJson[lastPayload].val
        mac == DictGet(obj, K_mac_address)
    IN  /\ last.dirReads = 0
        /\ Len(last.wakes) <= 1
        /\ mac.t = "str" => Len(last.wakes) = 1 /\ Len(last.sends) = 1
        /\ \A i \in 1..Len(last.wakes) :
              /\ DictGet(last.wakes[i], K_mac_address) = mac
              /\ DictGet(last.wakes[i], K_ip_address) = IpOf(obj)
              /\ DictGet(last.wakes[i], K_name) =
                    IF DictHas(obj, K_device) THEN DictGet(obj, K_device)
                    ELSE IF mac.t = "str" THEN PyStr(DevicePrefix \o Last5(mac.s))
                    ELSE DictGet(last.wakes[i], K_name)
        /\ \A i \in 1..Len(last.sends) : last.sends[i].mac = mac

\* under the directory that maps PC to 11:22:33:44:55:66 at 10.0.0.7, the
\* object {"mac_address": "AA:BB:CC:DD:EE:FF", "device": "PC"} had the packet
\* broadcast to AA:BB:CC:DD:EE:FF
C2_MacFieldBeatsDirectoryEntry ==
    /\ MessageHandled
    /\ config = ConfigHome
    /\ lastPayload = JsonText(ObjectOf(<<PyStr(MacA)>>, <<>>, <<PyStr(T_PC)>>))
    /\ last.sends = <<BroadcastCall(PyStr(MacA))>>
    /\ last.dirReads = 0

\* C3: _wake_device is only ever handed a target whose mac_address matches
\* the MAC pattern.
C3_WakeOnlyValidMac ==
    MessageHandled =>
        \A i \in 1..Len(last.wakes) :
            DictHas(last.wakes[i], K_mac_address) =>
                /\ DictGet(last.wakes[i], K_mac_address).t = "str"
                /\ _is_mac_address(DictGet(last.wakes[i], K_mac_address).s)

\* C4: a text payload whose trimmed text is the name of a directory entry up
\* to letter case has _wake_device called with that entry (the first so
\* named) and the packet sent to its mac_address and ip_address.
C4_PlainTextNameResolves ==
    (MessageHandled /\ LastIsText /\ WellFormedDirectory) =>
        \A i \in 1..Len(ConfigDevices(config)) :
            FirstEntryNamed(i, Strip(lastPayload)) =>
                /\ last.wakes = <<ConfigDevices(config)[i]>>
                /\ Len(last.sends) = 1
                /\ last.sends[1].mac = DictGet(ConfigDevices(config)[i], K_mac_address)
                /\ last.sends[1].ip = IpOf(ConfigDevices(config)[i])

\* six groups of two hex digits with five separators that are all ':' or all '-'
UniformMacAddress(text) ==
    /\ Len(text) = 17
    /\ \A i \in 1..17 : i % 3 # 0 => text[i] \in HexDigits
    /\ \E sep \in MacSeparators : \A i \in {3, 6, 9, 12, 15} : text[i] = sep

\* C5: _is_mac_address returns true exactly for the texts of six groups of
\* two hex digits whose five separators are the same character, ':' or '-'.
C5_TrueExactlyForUniformMac ==
    macChecked => (macResult <=> UniformMacAddress(macInput))

\* C6: without a configured directory, a bare device name gets an outcome
\* that is not the DeviceNotFound of a configured directory: the log differs
\* from the one the same payload gets under a configured, empty directory.
C6_NoDirectoryIsNotDeviceNotFound ==
    (MessageHandled /\ LastIsText /\ config = ConfigNoDirectory
        /\ ~PayloadJson[lastPayload].ok /\ SuppliedName # <<>>) =>
        /\ Outcome(last) # "DeviceNotFound"
        /\ last.logs # OnMessageTable["EmptyDirectory", lastPayload, TRUE].logs

\* C7: a device name that no directory entry has up to letter case ends in
\* DeviceNotFound: the warning is logged, _wake_device is not called, nothing
\* is sent, and the names of all entries are logged (or that there are none).
C7_UnknownNameIsDeviceNotFound ==
    (MessageHandled /\ LastIsText /\ WellFormedDirectory
        /\ SuppliedName # <<>> /\ NoEntryNamed(SuppliedName)) =>
        /\ Outcome(last) = "DeviceNotFound"
        /\ last.wakes = <<>>
        /\ last.sends = <<>>
        /\ IF ConfigDevices(config) = <<>> THEN Logged("NoDevicesConfigured")
           ELSE \E i \in 1..Len(last.logs) :
                   /\ last.logs[i].event = "AvailableDevices"
                   /\ last.logs[i].names =
                         [j \in 1..Len(ConfigDevices(config)) |->
                             DictGet(ConfigDevices(config)[j], K_name).s]

\* C8: a payload that json.loads accepts and that has neither a mac_address
\* field nor a device field ends in NoTargetSpecified, with no call of
\* _wake_device and nothing sent.
C8_NoFieldIsNoTargetSpecified ==
    (MessageHandled /\ LastIsText /\ PayloadJson[lastPayload].ok
        /\ ~(LastIsObject /\ DictHas(PayloadJson[lastPayload].val, K_mac_address))
        /\ ~(LastIsObject /\ DictHas(PayloadJson[lastPayload].val, K_device))) =>
        /\ Outcome(last) = "NoTargetSpecified"
        /\ last.wakes = <<>>
        /\ last.sends = <<>>

\* C9: a message makes at most one call of send_magic_packet: one, to the
\* target's MAC address, when _wake_device got a target with a mac_address
\* and a name, none otherwise, and none when the outcome is NoTargetSpecified,
\* DeviceNotFound or a processing error; the calls so far never outnumber the
\* messages, so no send is repeated, by its message or by a later one.
C9_AtMostOneSendPerMessage ==
    [][msgCount' = msgCount + 1 =>
          /\ sendCount' = sendCount + Len(last'.sends)
          /\ Len(last'.sends) <= 1
          /\ ResolvedTarget(last') =>
                /\ Len(last'.sends) = 1
                /\ last'.sends[1].mac = DictGet(last'.wakes[1], K_mac_address)
          /\ ~ResolvedTarget(last') => Len(last'.sends) = 0
          /\ Outcome(last') \in {"NoTargetSpecified", "DeviceNotFound", "ErrorProcessing"}
                => Len(last'.sends) = 0
          /\ sendCount' <= msgCount']_vars

\* of two messages the first had its one send fail, and the second, which
\* names no target, sent nothing
C9_FailedSendNotRepeated ==
    /\ msgCount = 2
    /\ sendCount = 1
    /\ failedEarlier
    /\ Outcome(last) = "NoTargetSpecified"
    /\ last.sends = <<>>

\* C10, as the code has it: a target with a mac_address and a name is sent
\* one packet; an ip_address that is a non-empty string makes it a unicast to
\* exactly that address, an ip_address that is None, absent or the empty
\* string makes it a broadcast, and a missing ip_address is no processing
\* error.
C10_UnicastIffIpNonEmpty ==
    (MessageHandled /\ ResolvedTarget(last)) =>
    LET target == last.wakes[1]
        mac    == DictGet(target, K_mac_address)
        ip     == IpOf(target)
    IN  /\ Len(last.sends) = 1
        /\ (ip.t = "str" /\ ip.s # <<>>) => last.sends[1] = UnicastCall(mac, ip)
        /\ (ip = PyNone \/ ip = PyStr(<<>>)) => last.sends[1] = BroadcastCall(mac)
        /\ ip = PyNone => Outcome(last) \in {"Sent", "FailedToSend"}

\* a packet was sent unicast to 10.0.0.5, the ip_address of the message
C10_UnicastToTheIpAddress ==
    /\ MessageHandled
    /\ last.sends = <<UnicastCall(PyStr(MacA), PyStr(IpA))>>
    /\ Logged("SentUnicast")

\* C10, as it is written: whenever the ip_address of a target with a valid
\* mac_address is set (it is not None), the packet is a unicast to exactly
\* that ip_address.
C10_UnicastWheneverIpSet ==
    (MessageHandled /\ ValidTarget(last) /\ IpOf(last.wakes[1]) # PyNone) =>
        last.sends = <<UnicastCall(DictGet(last.wakes[1], K_mac_address),
                                   IpOf(last.wakes[1]))>>

\* the MAC addresses that the plain-text payloads of the model hold
PlainMacTexts ==
    {Strip(p) : p \in {q \in PlainTextPayloads : _is_mac_address(Strip(q))}}

\* the JSON object {"mac_address": m}
MacObjectOf(m) == JsonText(PyDict(<<K_mac_address>>, <<PyStr(m)>>))

\* what _on_message does with {"mac_address": m}, under every configuration
MacObjectTable ==
    [m \in PlainMacTexts, n \in ConfigNames, sendOk \in BOOLEAN |->
        _on_message(ConfigNamed(n), MacObjectOf(m), sendOk)]

\* C11: a plain-text payload that is a MAC address m with white space around
\* it has _wake_device called with the target that the JSON object
\* {"mac_address": m} gets under any configuration: mac_address m,
\* ip_address None and the name "device-" with the last five characters of m;
\* and the packet is the same broadcast.
C11_PlainMacSameAsMacObject ==
    (MessageHandled /\ LastIsText /\ _is_mac_address(Strip(lastPayload))) =>
        /\ \A n \in ConfigNames, sendOk \in BOOLEAN :
              /\ MacObjectTable[Strip(lastPayload), n, sendOk].wakes = last.wakes
              /\ MacObjectTable[Strip(lastPayload), n, sendOk].sends = last.sends
        /\ last.wakes =
              <<PyDict(<<K_name, K_mac_address, K_ip_address>>,
                       <<PyStr(DevicePrefix \o SubSeq(Strip(lastPayload), 13, 17)),
                         PyStr(Strip(lastPayload)), PyNone>>)>>
        /\ last.sends = <<BroadcastCall(PyStr(Strip(lastPayload)))>>

\* the plain text " AA:BB:CC:DD:EE:FF" with a newline after it, under the
\* directory of five entries, had the packet broadcast to AA:BB:CC:DD:EE:FF
\* for the target named device-EE:FF
C11_PaddedPlainMacWakes ==
    /\ MessageHandled
    /\ config = ConfigHome
    /\ lastPayload = <<" ">> \o MacA \o <<"\n">>
    /\ last.sends = <<BroadcastCall(PyStr(MacA))>>
    /\ DictGet(last.wakes[1], K_name) = PyStr(<<"d","e","v","i","c","e","-","E","E",":","F","F">>)

\* the last five characters of a text, all of it when it has fewer
LastFiveOf(text) ==
    [i \in 1..(IF Len(text) < 5 THEN Len(text) ELSE 5) |->
        text[Len(text) - (IF Len(text) < 5 THEN Len(text) ELSE 5) + i]]

\* C12: when the message data has a mac_address that is a string (a JSON
\* object with the field, or a plain-text MAC address), the target handed to
\* _wake_device is named by the device field when the object has one and by
\* "device-" with the last five characters of the mac_address otherwise; its
\* ip_address is the ip_address field, None when the object has none; and the
\* name is the one logged.
C12_DirectTargetNameAndIp ==
    LET obj == IF MessageHandled /\ LastIsText THEN PayloadData[lastPayload] ELSE PyNone
    IN  (/\ obj.t = "dict"
         /\ DictHas(obj, K_mac_address)
         /\ DictGet(obj, K_mac_address).t = "str") =>
        /\ Len(last.wakes) = 1
        /\ DictGet(last.wakes[1], K_name) =
              IF DictHas(obj, K_device) THEN DictGet(obj, K_device)
              ELSE PyStr(<<"d","e","v","i","c","e","-">>
                         \o LastFiveOf(DictGet(obj, K_mac_address).s))
        /\ DictGet(last.wakes[1], K_ip_address) =
              IF DictHas(obj, K_ip_address) THEN DictGet(obj, K_ip_address) ELSE PyNone
        /\ \E i \in 1..Len(last.logs) :
              /\ last.logs[i].event = "SendingWOL"
              /\ last.logs[i].name = DictGet(last.wakes[1], K_name)

\* {"mac_address": "AA:BB:CC:DD:EE:FF", "ip_address": "10.0.0.5"} made the
\* target device-EE:FF at 10.0.0.5
C12_DefaultNameFromMac ==
    /\ MessageHandled
    /\ lastPayload = JsonText(ObjectOf(<<PyStr(MacA)>>, <<PyStr(IpA)>>, <<>>))
    /\ DictGet(last.wakes[1], K_name) = PyStr(DevicePrefix \o <<"E","E",":","F","F">>)
    /\ DictGet(last.wakes[1], K_ip_address) = PyStr(IpA)

\* the outcome of a message as the claims of resolution speak of it: the
\* target handed to _wake_device, or the problem logged when there is none
ResolutionOf(r) ==
    [wakes |-> r.wakes, problem |-> IF r.wakes = <<>> THEN Outcome(r) ELSE "none"]

C14_DirectoryNeverChanges ==
    [][/\ config' = config
       /\ Len(ConfigDevices(config')) = Len(ConfigDevices(config))
       /\ \A i \in 1..Len(ConfigDevices(config)) :
             ConfigDevices(config')[i] = ConfigDevices(config)[i]]_vars

\* the service has shut down after two messages, the first of which ended in
\* an error and the second of which woke the entry PC, and the directory still
\* has its five entries
C14_DirectoryIntactAfterShutdown ==
    /\ mainPc = "done"
    /\ msgCount = 2
    /\ failedEarlier
    /\ last.wakes = <<Entry(T_PC, MacB, IpB)>>
    /\ config = ConfigHome

\* C15: once _signal_handler has run, the service eventually stops: run() has
\* left its wait loop, the network loop is stopped and the client is
\* disconnected.
C15_SignalEventuallyStops ==
    signalled ~> (mainPc = "done" /\ ~loopAlive /\ ~connected)

\* C16: when the configuration file is missing or is no YAML, __init__ ends
\* with the error logged through the service logger and with SystemExit of
\* sys.exit(1), and with no other exception.
C16_BadConfigFileLoggedAndExits ==
    (mainPc # "init" /\ startup.file # "valid") =>
        /\ startup.exc = "SystemExit"
        /\ \E i \in 1..Len(startup.logs) : startup.logs[i].level = "error"
        /\ mainPc = "done"

\* C17: _on_connect with return code 0 subscribes, on the first connection
\* and on every later one; with another return code it leaves the
\* subscription as it was, so a subscription only ever comes with an
\* acknowledged connection; and _on_disconnect leaves the running flag, the
\* main thread and the network thread as they were.
C17_SubscribesOnAcknowledgedConnectOnly ==
    [][/\ \A rc \in {0, 5} :
             OnConnectRc(rc) =>
                 IF rc = 0 THEN subscribed' /\ connected'
                 ELSE subscribed' = subscribed /\ ~connected'
       /\ (subscribed' /\ ~subscribed) => (connected' /\ ~connected)
       /\ OnDisconnect =>
             /\ running' = running
             /\ mainPc' = mainPc
             /\ loopAlive' = loopAlive]_vars

\* the connection was acknowledged a second time, after a disconnection, and
\* the service is subscribed again and still running
C17_SubscribedAgainAfterReconnect ==
    /\ observed
    /\ connects = 2
    /\ connected
    /\ subscribed
    /\ running
    /\ mainPc = "wait"

\* C18: when the message data names a device (no mac_address, a device field
\* that is a non-empty string) and the directory has entries of that name up
\* to letter case, _wake_device is called once, with the first of them in
\* the order of the configuration, the packet goes to that entry's
\* mac_address and ip_address, and no later entry of the name is handed over.
C18_FirstOfSameNameWins ==
    LET obj == IF MessageHandled /\ LastIsText /\ WellFormedDirectory
               THEN PayloadData[lastPayload] ELSE PyNone
        devices == ConfigDevices(config)
    IN  (/\ obj.t = "dict"
         /\ ~DictHas(obj, K_mac_address)
         /\ DictHas(obj, K_device)
         /\ DictGet(obj, K_device).t = "str"
         /\ DictGet(obj, K_device).s # <<>>) =>
        \A i \in 1..Len(devices) :
            FirstEntryNamed(i, DictGet(obj, K_device).s) =>
                /\ last.wakes = <<devices[i]>>
                /\ Len(last.sends) = 1
                /\ last.sends[1].mac = DictGet(devices[i], K_mac_address)
                /\ last.sends[1].ip = IpOf(devices[i])
                /\ \A j \in (i + 1)..Len(devices) :
                      devices[j] # devices[i] =>
                          \A k \in 1..Len(last.wakes) : last.wakes[k] # devices[j]

\* the directory has PC at 11:22:33:44:55:66 (10.0.0.7) before pc at
\* aa-bb-cc-dd-ee-ff; the plain text pc had the packet sent to the first
C18_LaterEntryOfNameNotWoken ==
    /\ MessageHandled
    /\ config = ConfigHome
    /\ lastPayload = T_pc
    /\ last.wakes = <<Entry(T_PC, MacB, IpB)>>
    /\ last.sends = <<UnicastCall(PyStr(MacB), PyStr(IpB))>>

=============================================================================
